---- MODULE Spec2Model ----
(***************************************************************************)
(* Model of the node connection / RPC correlation layer of                 *)
(* EasyTeleop-Backend-Python: src/rpc.py (registry node_websockets,        *)
(* pending table pending_responses, call_node_rpc, wait_for_response,      *)
(* handle_jsonrpc_response, handle_jsonrpc_request, handle_node_register,  *)
(* notify_node_config_update and the two teleop-group notifications)       *)
(* and src/backend.py (websocket_endpoint, register_node).                 *)
(*                                                                         *)
(* The program runs on one asyncio event loop: code between two awaits is  *)
(* one atomic step, and every await (receive_text, send_text, wait_for) is *)
(* a point where other tasks run.                                          *)
(***************************************************************************)
EXTENDS Integers, FiniteSets, Sequences, TLC

\* ---------------------------------------------------------------- bounds
NumConns == 2      \* websocket connections that may be accepted
NumCallers == 2    \* caller tasks (HTTP handlers invoking call_node_rpc)
NumUuids == 2      \* distinct external identifiers
MaxClock == 2      \* last value of the millisecond clock that is modelled
TimeoutTicks == 1  \* wait_for timeout, in clock steps
FewConns == 1      \* connections accepted under SpecCalls
FewCallers == 1    \* caller tasks that run under SpecRegistry
MaxGroups == 1     \* teleop groups that are created
FewUuids == 1      \* identifiers that register under SpecTeleop

Conns == 1..NumConns
Callers == 1..NumCallers
Uuids == 1..NumUuids
NodeKeys == 1..NumUuids          \* keys the nodes table can hand out
RpcIds == 0..MaxClock            \* values int(time.time() * 1000) can take
ReqIds == {7}                    \* ids a node puts in its own requests

NoUuid == 0        \* params without a (non-empty) "uuid"
NoNode == 0        \* connection_context["node_id"] is None / no row
NoConn == 0        \* no websocket
NoRow == -1        \* teleop_groups has no row with the group's id
GroupId == 1       \* the {id} of the teleop-group requests
Junk == 0          \* payload of a frame that answers no request

\* ------------------------------------------------------- python dict helpers
EmptyDict == [x \in {} |-> 0]
Has(d, k) == k \in DOMAIN d
Put(d, k, v) == [x \in (DOMAIN d) \cup {k} |-> IF x = k THEN v ELSE d[x]]
Del(d, k) == [x \in (DOMAIN d) \ {k} |-> d[x]]

VARIABLES
    now,               \* time.time() * 1000, truncated
    nodes,             \* table nodes: uuid -> id (NoNode: no row)
    node_websockets,   \* dict node_id -> websocket
    pending_responses, \* dict node_id -> dict rpc_id -> future (its caller)
    sessions,          \* per connection: websocket_endpoint's frame
    outbox,            \* per connection: request frames transmitted on it
                       \* whose call has not ended
    calls,             \* per caller task: call_node_rpc / wait_for_response
    group_status,      \* table teleop_groups: status of the row with id
                       \* GroupId (NoRow: there is no such row)
    group_node,        \* table teleop_groups: node_id of that row
    group_seq,         \* table teleop_groups: the last id AUTOINCREMENT has
                       \* handed out
    sent               \* every request frame a node has been sent: it may
                       \* answer it at any time, on any connection

vars == <<now, nodes, node_websockets, pending_responses, sessions, outbox,
          calls, group_status, group_node, group_seq, sent>>

NoMsg == [kind |-> "none", payload |-> Junk]
NoOutcome == [kind |-> "none", val |-> 0]

IdleCall == [pc |-> "idle", op |-> "none", node |-> NoNode, rpc_id |-> 0,
             again |-> FALSE,
             fut |-> "none", msg |-> NoMsg, ttl |-> 0, ws |-> NoConn,
             outcome |-> NoOutcome]

Init ==
    /\ now = 0
    /\ nodes = [u \in Uuids |-> NoNode]
    /\ node_websockets = EmptyDict
    /\ pending_responses = EmptyDict
    /\ sessions = [k \in Conns |->
                     [state |-> "none", node_id |-> NoNode, alive |-> TRUE]]
    /\ outbox = [k \in Conns |-> {}]
    /\ calls = [c \in Callers |-> IdleCall]
    /\ group_status = NoRow
    /\ group_node = NoNode
    /\ group_seq = 0
    /\ sent = {}

\* ------------------------------------------------------------------ clock
\* One millisecond passes.  Timers of waiting calls run down; the clock value
\* itself is capped (no id is drawn from the clock once it is at MaxClock).
Tick ==
    /\ \/ now < MaxClock
       \/ \E c \in Callers : calls[c].pc = "waiting" /\ calls[c].ttl > 0
    /\ now' = IF now < MaxClock THEN now + 1 ELSE now
    /\ calls' = [c \in Callers |->
                   IF calls[c].pc = "waiting" /\ calls[c].ttl > 0
                   THEN [calls[c] EXCEPT !.ttl = @ - 1]
                   ELSE calls[c]]
    /\ UNCHANGED <<sent, group_status, group_node, group_seq, nodes, node_websockets, pending_responses,
                   sessions, outbox>>

\* ------------------------------------------------------------ persistence
SetMax(S) == IF S = {} THEN 0 ELSE CHOOSE m \in S : \A x \in S : x <= m

\* Faulty variant of LastRowId: a row id that does not advance.
LastRowIdShared(db) == 1
\* cursor.lastrowid after INSERT INTO nodes (id INTEGER PRIMARY KEY
\* AUTOINCREMENT): one more than the largest id handed out so far.
LastRowId(db) == SetMax({db[u] : u \in DOMAIN db}) + 1

\* SELECT id FROM nodes WHERE uuid = ? / INSERT INTO nodes (uuid) VALUES (?)
FindOrCreate(db, u) == IF db[u] # NoNode THEN db[u] ELSE LastRowId(db)

\* POST /api/node
register_node(u) ==
    /\ nodes' = [nodes EXCEPT ![u] = FindOrCreate(nodes, u)]
    /\ UNCHANGED <<sent, group_status, group_node, group_seq, now, node_websockets, pending_responses, sessions, outbox,
                   calls>>

\* --------------------------------------------------------------- sessions
\* websocket.accept()
Accept(k) ==
    /\ sessions[k].state = "none"
    /\ sessions' = [sessions EXCEPT ![k].state = "open"]
    /\ UNCHANGED <<sent, group_status, group_node, group_seq, now, nodes, node_websockets, pending_responses, outbox,
                   calls>>

\* The transport breaks (or the peer closes); the reader has not noticed yet.
TransportFail(k) ==
    /\ sessions[k].state = "open"
    /\ sessions[k].alive
    /\ sessions' = [sessions EXCEPT ![k].alive = FALSE]
    /\ UNCHANGED <<sent, group_status, group_node, group_seq, now, nodes, node_websockets, pending_responses, outbox,
                   calls>>

\* finally-block of websocket_endpoint: the registry after the cleanup.
Cleanup(reg, k, nid) ==
    IF nid # NoNode /\ Has(reg, nid) THEN Del(reg, nid) ELSE reg

\* The read loop is left through the except/finally of websocket_endpoint;
\* the except clause catches every Exception alike and only prints it.  The
\* function's locals (connection_context) are gone.  The requests that went
\* out on the connection stay with the node, which may answer them on
\* another one.
ExitLoop(k) ==
    /\ sessions' = [sessions EXCEPT ![k].state = "closed", ![k].alive = FALSE,
                                    ![k].node_id = NoNode]
    /\ node_websockets' = Cleanup(node_websockets, k, sessions[k].node_id)
    /\ outbox' = outbox

\* receive_text raises on a dead transport.
SessionExit(k) ==
    /\ sessions[k].state = "open"
    /\ ~sessions[k].alive
    /\ ExitLoop(k)
    /\ UNCHANGED <<sent, group_status, group_node, group_seq, now, nodes, pending_responses, calls>>

\* ------------------------------------------------- inbound frames (inputs)
\* What receive_text() can deliver, by the shape the read loop tells apart.
\* A request frame: {"method": m, "params": {"uuid": u}, "id": i}.
\* also = "none": the frame has no "result" and no "error" field.
RequestFrames ==
    [method : {"backend.register", "node.other"}, uuid : Uuids \cup {NoUuid},
     id : ReqIds, dbok : BOOLEAN, also : {"none"}]

\* A frame with a "method" field that carries, besides it, the id of a
\* request the node was sent and a "result" or "error" field with the answer
\* to that request.
HybridFrames(k) ==
    {[method |-> m, uuid |-> u, id |-> r.id, dbok |-> TRUE, also |-> kd,
      payload |-> r.params] :
        m \in {"backend.register", "node.other"}, u \in Uuids \cup {NoUuid},
        r \in sent, kd \in {"result", "error"}}

\* A response frame: {"id": i, "result"|"error": payload}; kind "both" is a
\* frame with a "result" and an "error" field.  idk = "list" is
\* an id that is a JSON array or object.  The frame may carry any id.  Its
\* payload echoes the params of a request only if the node was sent that
\* request under the frame's id, at any time before and on any connection,
\* whether or not the call that sent it has returned; payload Junk is every
\* other content (for a result: one that does not report success).
ResponseKinds == {"result", "error", "both"}
ResponseFrames(k) ==
    {[idk |-> "int", id |-> r.id, kind |-> kd, payload |-> r.params] :
        r \in sent, kd \in ResponseKinds}
    \cup
    {[idk |-> "int", id |-> i, kind |-> kd, payload |-> Junk] :
        i \in RpcIds, kd \in ResponseKinds}
    \cup
    {[idk |-> "list", id |-> 0, kind |-> kd, payload |-> Junk] :
        kd \in ResponseKinds}

\* Faulty variant of CanReceive: a closed session still takes frames.
CanReceiveClosed(k) == sessions[k].state # "none"
\* Faulty variant of CanReceive: the reader stands still while a call waits.
CanReceiveNoneWaiting(k) ==
    /\ sessions[k].state = "open" /\ sessions[k].alive
    /\ \A c \in Callers : calls[c].pc # "waiting"
\* `await websocket.receive_text()` returns a frame: the reader is its own
\* task and waits for nothing but its socket.
CanReceive(k) == sessions[k].state = "open" /\ sessions[k].alive

\* A frame that is not a JSON object and ends the read loop: json.loads(data)
\* raises JSONDecodeError; for a number, null or a boolean `"method" in
\* message` raises TypeError; for a string or an array that holds "method"
\* the test succeeds and request.get in handle_jsonrpc_request raises
\* AttributeError.
RecvUnparseable(k) ==
    /\ CanReceive(k)
    /\ ExitLoop(k)
    /\ UNCHANGED <<sent, group_status, group_node, group_seq, now, nodes, pending_responses, calls>>

\* A JSON object with no "method" and without "id" plus "result"/"error":
\* neither branch of the loop body runs.
RecvOther(k) ==
    /\ CanReceive(k)
    /\ UNCHANGED vars

\* Faulty variant of RegisterFails: a failure of sqlite goes unnoticed.
RegisterFailsUuidOnly(f) == f.uuid = NoUuid
\* handle_node_register raises: no uuid, or sqlite fails (rollback).
RegisterFails(f) == f.uuid = NoUuid \/ ~f.dbok

\* The exception handle_node_register raises for request f.
RegisterError(f) ==
    IF f.uuid = NoUuid THEN "Missing uuid parameter" ELSE "sqlite3.Error"

\* Faulty variant of KnownMethod: every method is dispatched to registration.
KnownMethodAny(m) == TRUE
\* `method == "backend.register"`
KnownMethod(m) == m = "backend.register"

\* Faulty variant of StrExc: the message of the exception is not passed on.
StrExcHidden(e) == "Internal error"
\* str(exc)
StrExc(e) == e

\* The reply handle_jsonrpc_request returns for request f, which the read
\* loop then transmits with send_text.
ReplyTo(f, db) ==
    IF ~KnownMethod(f.method)
    THEN [id |-> f.id, kind |-> "error", val |-> -32601,
          msg |-> "Method not found"]
    ELSE IF RegisterFails(f)
    THEN [id |-> f.id, kind |-> "error", val |-> -32603,
          msg |-> StrExc(RegisterError(f))]
    ELSE [id |-> f.id, kind |-> "result", val |-> FindOrCreate(db, f.uuid),
          msg |-> ""]

\* Faulty variant of Bind: the connection is not stored.
BindSkipped(reg, nid, k) == reg
\* node_websockets[node_id] = websocket
Bind(reg, nid, k) == Put(reg, nid, k)

\* handle_jsonrpc_request (with handle_node_register), then send_text of
\* the reply.
RecvRequest(k, f) ==
    /\ CanReceive(k)
    /\ IF ReplyTo(f, nodes).kind = "result"
       THEN LET nid == ReplyTo(f, nodes).val IN
            /\ nodes' = [nodes EXCEPT ![f.uuid] = nid]
            /\ node_websockets' = Bind(node_websockets, nid, k)
            /\ sessions' = [sessions EXCEPT ![k].node_id = nid]
       ELSE UNCHANGED <<nodes, node_websockets, sessions>>
    /\ UNCHANGED <<sent, group_status, group_node, group_seq, now, pending_responses, outbox, calls>>

\* pending_responses.get(node_id, {})
NodePendingOf(p, nid) == IF Has(p, nid) THEN p[nid] ELSE EmptyDict
NodePending(nid) == NodePendingOf(pending_responses, nid)

\* Faulty variant of Addressable: the node key is not looked at.
AddressableAlways(nid) == TRUE
\* `node_id is not None`
Addressable(nid) == nid # NoNode

\* Faulty variant of FutureDone: a future never counts as done.
FutureDoneNever(call) == FALSE
\* future.done(): the future has a result or is cancelled.
FutureDone(call) == call.fut # "pending"

\* Faulty variant of RouteKey: every reply is looked up under one node key.
RouteKeyShared(nid) == 1
\* pending_responses.get(node_id, {}): the inner table of the node key the
\* session is bound to.
RouteKey(nid) == nid

\* handle_jsonrpc_response(message, connection_context["node_id"])
RecvResponse(k, f) ==
    /\ CanReceive(k)
    /\ LET nid == sessions[k].node_id IN
       IF ~Addressable(nid)
       THEN \* node_id is None: nothing is looked up
            UNCHANGED <<sessions, node_websockets, outbox, calls>>
       ELSE IF f.idk = "list"
       THEN \* `rpc_id in node_pending` raises TypeError (unhashable)
            /\ ExitLoop(k)
            /\ UNCHANGED calls
       ELSE /\ UNCHANGED <<sessions, node_websockets, outbox>>
            /\ IF Has(NodePending(RouteKey(nid)), f.id)
                  /\ ~FutureDone(calls[NodePending(RouteKey(nid))[f.id]])
               THEN calls' = [calls EXCEPT
                                ![NodePending(RouteKey(nid))[f.id]].fut = "done",
                                ![NodePending(RouteKey(nid))[f.id]].msg =
                                               [kind |-> f.kind,
                                                payload |-> f.payload]]
               ELSE UNCHANGED calls
    /\ UNCHANGED <<sent, group_status, group_node, group_seq, now, nodes, pending_responses>>

RecvAnyResponse(k) == \E f \in ResponseFrames(k) : RecvResponse(k, f)

\* Faulty variant of HandledAsRequest: the response shape is tested first.
HandledAsRequestUnlessReply(f) == f.also = "none"
\* `if "method" in message:` comes first in the loop body; the frames of
\* RequestFrames and HybridFrames all carry a method.
HandledAsRequest(f) == TRUE

\* The response envelope in a frame that has id with result or error.
AsResponse(f) ==
    [idk |-> "int", id |-> f.id, kind |-> f.also, payload |-> f.payload]

\* The loop body for a frame with a method, an id and a result or error.
RecvHybrid(k, f) ==
    IF HandledAsRequest(f) THEN RecvRequest(k, f)
    ELSE RecvResponse(k, AsResponse(f))

\* ---------------------------------------------------------------- callers
\* Faulty variant of CanSend: a send on a broken connection goes unnoticed.
CanSendAlways(k) == TRUE
\* websocket.send_text succeeds only on an open, unbroken connection.
CanSend(k) == k # NoConn /\ sessions[k].state = "open" /\ sessions[k].alive

\* Faulty variant of NotConnected: the connectivity check is skipped.
NotConnectedNever(n) == FALSE
\* `node_id not in node_websockets`
NotConnected(n) == ~Has(node_websockets, n)

\* int(time.time() * 1000)
NewRpcId == now

\* The connectivity check, the id and the send_text of a call to node n; op
\* is the handler that issues it ("rpc": call_node_rpc and the handlers that
\* only pass the result on, "start" / "stop": the teleop-group handlers).
IssueCall(c, n, op) ==
    /\ calls[c].pc = "idle"
    /\ now < MaxClock
    /\ IF NotConnected(n)
       THEN /\ calls' = [calls EXCEPT ![c].pc = "done",
                            ![c].outcome = [kind |-> "not_connected", val |-> 0]]
            /\ UNCHANGED <<outbox, sent>>
       ELSE LET ws == IF Has(node_websockets, n) THEN node_websockets[n]
                      ELSE NoConn IN
            IF CanSend(ws)
            THEN /\ calls' = [calls EXCEPT ![c].pc = "sending", ![c].op = op,
                                 ![c].node = n, ![c].rpc_id = NewRpcId,
                                 ![c].again =
                                     [id |-> NewRpcId, params |-> c] \in sent]
                 /\ outbox' = [outbox EXCEPT
                                 ![ws] = @ \cup {[id |-> NewRpcId, params |-> c]}]
                 /\ sent' = sent \cup {[id |-> NewRpcId, params |-> c]}
            ELSE /\ calls' = [calls EXCEPT ![c].pc = "done",
                                 ![c].outcome = [kind |-> "send_failed", val |-> 0]]
                 /\ UNCHANGED <<outbox, sent>>
    /\ UNCHANGED <<group_status, group_node, group_seq, now, nodes, node_websockets,
                   pending_responses, sessions>>

\* call_node_rpc up to `await websocket.send_text(...)` (the same code is
\* inlined in the HTTP handlers of backend.py, e.g. get_device_categories).
CallNodeRpc(c, n) == IssueCall(c, n, "rpc")

\* The task is suspended in `await websocket.send_text(...)` and the send
\* raises: the connection the frame was handed to has broken or is closed,
\* and the frame has not reached the node.  The exception leaves the function
\* before wait_for_response is called.  The requests of the task's earlier
\* calls stay with the node (again: an earlier call of the task was sent
\* with the same id, in the same millisecond).
SendTextRaises(c) ==
    /\ calls[c].pc = "sending"
    /\ \A k \in Conns : (\E r \in outbox[k] : r.params = c) => ~CanSend(k)
    /\ calls' = [calls EXCEPT ![c] =
                   [IdleCall EXCEPT !.pc = "done",
                        !.outcome = [kind |-> "send_failed", val |-> 0]]]
    /\ outbox' = [k \in Conns |-> {r \in outbox[k] : r.params # c}]
    /\ sent' = IF calls[c].again THEN sent
               ELSE sent \ {[id |-> calls[c].rpc_id, params |-> c]}
    /\ UNCHANGED <<group_status, group_node, group_seq, now, nodes, node_websockets,
                   pending_responses, sessions>>

\* start_teleop_group / stop_teleop_group up to `await websocket.send_text`:
\* the call goes to the node_id of the group's row.
TeleopOps == {"start", "stop"}
TeleopCall(c, op) ==
    IF group_status = NoRow
    THEN \* `if not row: raise HTTPException(404)`: nothing is looked up or sent
         /\ calls[c].pc = "idle"
         /\ calls' = [calls EXCEPT ![c].pc = "done",
                          ![c].outcome = [kind |-> "not_found", val |-> 0]]
         /\ UNCHANGED <<sent, group_status, group_node, group_seq, now, nodes, node_websockets,
                        pending_responses, sessions, outbox>>
    ELSE IssueCall(c, group_node, op)

\* wait_for_response, lines 21-28: the future is created and stored, and the
\* task suspends in asyncio.wait_for(future, timeout).
BeginWait(c) ==
    /\ calls[c].pc = "sending"
    /\ LET n == calls[c].node IN
       pending_responses' =
           Put(pending_responses, n, Put(NodePending(n), calls[c].rpc_id, c))
    /\ calls' = [calls EXCEPT ![c].pc = "waiting", ![c].fut = "pending",
                              ![c].again = FALSE, ![c].ttl = TimeoutTicks]
    /\ UNCHANGED <<sent, group_status, group_node, group_seq, now, nodes, node_websockets, sessions, outbox>>

\* The timer of asyncio.wait_for expires before the future has a result:
\* the future is cancelled.
\* Faulty variant of TimerExpired: the wait is given up at any moment.
TimerAnyTime(call) == TRUE
\* Faulty variant of TimerExpired: wait_for without a timeout.
TimerNever(call) == FALSE
\* The timeout given to asyncio.wait_for has elapsed.
TimerExpired(call) == call.ttl = 0

TimeoutFire(c) ==
    /\ calls[c].pc = "waiting"
    /\ calls[c].fut = "pending"
    /\ TimerExpired(calls[c])
    /\ calls' = [calls EXCEPT ![c].fut = "cancelled"]
    /\ UNCHANGED <<sent, group_status, group_node, group_seq, now, nodes, node_websockets, pending_responses, sessions,
                   outbox>>

\* wait_for_response, lines 30-40: what the caller gets for a fulfilled or
\* cancelled future.
\* Faulty variant of HasErrorField: the error field is not looked at.
HasErrorFieldNever(msg) == FALSE
\* `"error" in response`
HasErrorField(msg) == msg.kind \in {"error", "both"}

OutcomeOf(call) ==
    IF call.fut = "cancelled" THEN [kind |-> "timeout", val |-> 0]
    ELSE IF HasErrorField(call.msg) THEN [kind |-> "error", val |-> call.msg.payload]
    ELSE [kind |-> "result", val |-> call.msg.payload]

\* Faulty variant of PopPending: the emptied inner table is left in place.
PopPendingKeepInner(p, n, i) == IF Has(p, n) THEN Put(p, n, Del(p[n], i)) ELSE p
\* Faulty variant of PopPending: the record is left in the table.
PopPendingSkipped(p, n, i) == p
\* wait_for_response, finally-block (lines 41-45).
PopPending(p, n, i) ==
    IF Has(p, n)
    THEN LET inner == Del(p[n], i) IN
         IF DOMAIN inner = {} THEN Del(p, n) ELSE Put(p, n, inner)
    ELSE p

\* `isinstance(result, dict) and result.get("success") is True`: payload
\* Junk is a result that does not report success.
ReportsSuccess(msg) == msg.payload # Junk

\* start_teleop_group / stop_teleop_group after wait_for_response: the
\* UPDATE of teleop_groups.status is reached only with a result that reports
\* success; every exception leaves the row as it is.
StatusAfter(st, call) ==
    IF st = NoRow THEN NoRow    \* the UPDATE matches no row
    ELSE
    IF /\ call.op \in TeleopOps
       /\ OutcomeOf(call).kind = "result"
       /\ ReportsSuccess(call.msg)
    THEN (IF call.op = "start" THEN 1 ELSE 0)
    ELSE st

\* The caller task resumes from wait_for and leaves wait_for_response: its
\* locals are gone, only what it returned or raised is kept (outcome).  A
\* teleop-group handler goes on, without suspending, to its status update.
CallReturn(c) ==
    /\ calls[c].pc = "waiting"
    /\ calls[c].fut \in {"done", "cancelled"}
    /\ calls' = [calls EXCEPT ![c].pc = "done", ![c].op = "none",
                              ![c].fut = "none",
                              ![c].msg = NoMsg, ![c].rpc_id = 0,
                              ![c].node = NoNode, ![c].ttl = 0,
                              ![c].outcome = OutcomeOf(calls[c])]
    /\ pending_responses' = PopPending(pending_responses, calls[c].node, calls[c].rpc_id)
    /\ outbox' = [k \in Conns |-> {r \in outbox[k] : r.params # c}]
    /\ group_status' = StatusAfter(group_status, calls[c])
    /\ UNCHANGED <<sent, group_node, group_seq, now, nodes, node_websockets,
                   sessions>>

\* ---------------------------------------------------------- notifications
\* notify_node_config_update, notify_node_start_teleop_group and
\* notify_node_stop_teleop_group.
NotifyMethods ==
    {"node.update_config", "node.start_teleop_group", "node.stop_teleop_group"}

\* What `websocket.state.name != "CLOSED"` does on the stored websocket
\* object: it is true, it is false, or the attribute lookup raises.  Only the
\* two teleop-group notifications evaluate it.
StateChecks(m) ==
    IF m = "node.update_config" THEN {"unchecked"}
    ELSE {"not_closed", "closed", "raises"}

\* Faulty variant of OnNotifyError: the exception reaches the caller.
OnNotifyErrorRaise == "raised"
\* except Exception as exc: print(...)
OnNotifyError == "notify_swallowed"

\* How a notify_* call goes up to its send_text, and the websocket it
\* picked; "notified": the frame is handed to the websocket.
NotifyOutcome(n, st) ==
    IF NotConnected(n) THEN [kind |-> "notify_skipped", val |-> NoConn]
    ELSE LET ws == node_websockets[n] IN
         IF st = "raises" THEN [kind |-> OnNotifyError, val |-> ws]
         ELSE IF st = "closed" THEN [kind |-> "notify_skipped", val |-> ws]
         ELSE IF CanSend(ws) THEN [kind |-> "notified", val |-> ws]
         ELSE [kind |-> OnNotifyError, val |-> ws]

\* The task's record after notify_*(n) has run up to its first suspension:
\* it has returned, or it is suspended in `await websocket.send_text(...)`.
NotifyEntered(n, st) ==
    IF NotifyOutcome(n, st).kind = "notified"
    THEN [IdleCall EXCEPT !.pc = "in_send_text", !.ws = NotifyOutcome(n, st).val]
    ELSE [IdleCall EXCEPT !.pc = "done", !.outcome = NotifyOutcome(n, st)]

\* A task calls notify_*(n).
Notify(c, n, m, st) ==
    /\ calls[c].pc = "idle"
    /\ calls' = [calls EXCEPT ![c] = NotifyEntered(n, st)]
    /\ UNCHANGED <<sent, group_status, group_node, group_seq, now, nodes, node_websockets, pending_responses, sessions,
                   outbox>>

\* send_text completes and notify_* returns.
NotifyReturn(c) ==
    /\ calls[c].pc = "in_send_text"
    /\ calls' = [calls EXCEPT ![c] =
                   [IdleCall EXCEPT !.pc = "done",
                        !.outcome = [kind |-> "notified", val |-> calls[c].ws]]]
    /\ UNCHANGED <<sent, group_status, group_node, group_seq, now, nodes, node_websockets, pending_responses, sessions,
                   outbox>>

\* The suspended send_text raises on a connection that has broken meanwhile;
\* the except clause of notify_* catches it.
NotifySendRaises(c) ==
    /\ calls[c].pc = "in_send_text"
    /\ ~CanSend(calls[c].ws)
    /\ calls' = [calls EXCEPT ![c] =
                   [IdleCall EXCEPT !.pc = "done",
                        !.outcome = [kind |-> OnNotifyError, val |-> calls[c].ws]]]
    /\ UNCHANGED <<sent, group_status, group_node, group_seq, now, nodes, node_websockets, pending_responses, sessions,
                   outbox>>

NotifyStep(c) ==
    \/ \E n \in NodeKeys : \E m \in NotifyMethods : \E st \in StateChecks(m) :
          Notify(c, n, m, st)
    \/ NotifyReturn(c)
    \/ NotifySendRaises(c)

\* SELECT id FROM nodes WHERE id = ?
NodeRow(db, n) == \E u \in DOMAIN db : db[u] = n

\* POST /api/teleop-groups with node_id n.  Without a row for n in nodes the
\* handler raises (400) and changes nothing.  Otherwise a row is inserted
\* under the next id and with the default status 0 and committed, then
\* notify_node_config_update(n) runs.  The row is the one the model follows
\* if its id is GroupId.
create_teleop_group(c, n) ==
    /\ calls[c].pc = "idle"
    /\ IF ~NodeRow(nodes, n)
       THEN /\ calls' = [calls EXCEPT ![c].pc = "done",
                             ![c].outcome = [kind |-> "node_not_found", val |-> 0]]
            /\ UNCHANGED <<group_status, group_node, group_seq>>
       ELSE /\ group_seq < MaxGroups
            /\ group_seq' = group_seq + 1
            /\ IF group_seq + 1 = GroupId
               THEN group_status' = 0 /\ group_node' = n
               ELSE UNCHANGED <<group_status, group_node>>
            /\ calls' = [calls EXCEPT ![c] = NotifyEntered(n, "unchecked")]
    /\ UNCHANGED <<sent, now, nodes, node_websockets, pending_responses, sessions,
                   outbox>>

\* DELETE /api/teleop-groups/{id}.  The row is deleted and committed, then
\* notify_node_config_update runs for the node_id the row had; without a row
\* the handler raises (rowcount 0) and changes nothing.
delete_teleop_group(c) ==
    /\ calls[c].pc = "idle"
    /\ IF group_status = NoRow
       THEN /\ calls' = [calls EXCEPT ![c].pc = "done",
                             ![c].outcome = [kind |-> "not_found", val |-> 0]]
            /\ UNCHANGED <<group_status, group_node>>
       ELSE /\ group_status' = NoRow
            /\ group_node' = NoNode
            /\ calls' = [calls EXCEPT ![c] = NotifyEntered(group_node, "unchecked")]
    /\ UNCHANGED <<sent, group_seq, now, nodes, node_websockets,
                   pending_responses, sessions, outbox>>

\* The handler's response has gone out; the task takes the next request.
NextRequest(c) ==
    /\ calls[c].pc = "done"
    /\ calls' = [calls EXCEPT ![c] = IdleCall]
    /\ UNCHANGED <<sent, group_status, group_node, group_seq, now, nodes,
                   node_websockets, pending_responses, sessions, outbox>>

\* ------------------------------------------------------------ specification
SessionStep(k) ==
    \/ Accept(k)
    \/ TransportFail(k)
    \/ SessionExit(k)
    \/ RecvUnparseable(k)
    \/ RecvOther(k)
    \/ \E f \in RequestFrames : RecvRequest(k, f)
    \/ \E f \in HybridFrames(k) : RecvHybrid(k, f)
    \/ RecvAnyResponse(k)

CallerStep(c) ==
    \/ \E n \in NodeKeys : CallNodeRpc(c, n)
    \/ SendTextRaises(c)
    \/ BeginWait(c)
    \/ TimeoutFire(c)
    \/ CallReturn(c)

\* The node_id that teleop groups are created with under SpecTeleop.
GroupNode == 1
\* Under SpecTeleop the nodes send registrations of the first FewUuids
\* identifiers and responses.
TeleopSessionStep(k) ==
    \/ Accept(k)
    \/ TransportFail(k)
    \/ SessionExit(k)
    \/ \E f \in {g \in RequestFrames : g.method = "backend.register"
                                        /\ g.uuid \in 1..FewUuids} :
          RecvRequest(k, f)
    \/ RecvAnyResponse(k)
TeleopStep(c) ==
    \/ create_teleop_group(c, GroupNode)
    \/ \E op \in TeleopOps : TeleopCall(c, op)
    \/ delete_teleop_group(c)
    \/ NextRequest(c)
    \/ NotifyReturn(c)
    \/ NotifySendRaises(c)
    \/ SendTextRaises(c)
    \/ BeginWait(c)
    \/ TimeoutFire(c)
    \/ CallReturn(c)

NextOver(KS, CS) ==
    \/ Tick
    \/ \E u \in Uuids : register_node(u)
    \/ \E k \in KS : SessionStep(k)
    \/ \E c \in CS : CallerStep(c)

NextTeleop ==
    \/ Tick
    \/ \E k \in 1..FewConns : TeleopSessionStep(k)
    \/ \E c \in Callers : TeleopStep(c)

Next ==
    \/ NextOver(Conns, Callers)
    \/ \E c \in Callers : NotifyStep(c)
    \/ \E c \in Callers : \E n \in NodeKeys : create_teleop_group(c, n)
    \/ \E c \in Callers : \E op \in TeleopOps : TeleopCall(c, op)
    \/ \E c \in Callers : delete_teleop_group(c)
    \/ \E c \in Callers : NextRequest(c)
NextRegistry == NextOver(Conns, 1..FewCallers)
NextCalls == NextOver(1..FewConns, Callers)
NextNotify == NextCalls \/ \E c \in Callers : NotifyStep(c)

\* Every connection and every caller task.
Spec == Init /\ [][Next]_vars
\* Every connection, FewCallers caller tasks: the registry and the sessions.
SpecRegistry == Init /\ [][NextRegistry]_vars
\* FewConns connections, every caller task: the correlation of calls.
SpecCalls == Init /\ [][NextCalls]_vars
\* FewConns connections, every caller task: calls and notifications.
SpecNotify == Init /\ [][NextNotify]_vars
\* FewConns connections, every caller task: the teleop-group handlers.
SpecTeleop == Init /\ [][NextTeleop]_vars
\* The event loop runs every expired timer and every task that is ready,
\* and time passes.
FairSpecCalls ==
    /\ SpecCalls
    /\ WF_vars(Tick)
    /\ \A c \in Callers : WF_vars(TimeoutFire(c)) /\ WF_vars(CallReturn(c))

\* ================================================================== claims
Outstanding(c) == calls[c].pc \in {"sending", "waiting"}
Returns(c) == calls[c].pc = "waiting" /\ calls'[c].pc = "done"
Registered(reg, n, k) == Has(reg, n) /\ reg[n] = k
Leaves(k) == sessions[k].state = "open" /\ sessions'[k].state = "closed"
HasRecord(c) ==
    \E n \in DOMAIN pending_responses :
        \E i \in DOMAIN pending_responses[n] : pending_responses[n][i] = c

\* C1: when a session exits, the registry entry of its node key is removed
\* only if it holds that session's own connection: an entry that holds
\* another connection is still there, unchanged, after the exit.
C1_ExitKeepsNewerConnection ==
    [][\A k \in Conns : \A n \in NodeKeys :
          (Leaves(k) /\ Has(node_websockets, n) /\ node_websockets[n] # k)
          => Registered(node_websockets', n, node_websockets[n])]_vars

\* C2: two calls to the same node that are outstanding at the same time
\* never carry the same call id.
C2_UniqueCallIds ==
    \A c \in Callers : \A d \in Callers :
        (c # d /\ Outstanding(c) /\ Outstanding(d)
         /\ calls[c].node = calls[d].node)
        => calls[c].rpc_id # calls[d].rpc_id

C3_NoResidue ==
    \A n \in DOMAIN pending_responses : \A i \in DOMAIN pending_responses[n] :
        calls[pending_responses[n][i]].pc = "waiting"
C3_ReturnStep ==
    \A c \in Callers :
        /\ Returns(c) =>
             /\ calls'[c].outcome.kind \in {"result", "error", "timeout"}
             /\ ~Has(NodePendingOf(pending_responses', calls[c].node),
                     calls[c].rpc_id)
        /\ (Outstanding(c) /\ calls'[c].pc = "done")
             => Returns(c) \/ SendTextRaises(c)
        /\ calls[c].outcome.kind # "none" => calls'[c] = calls[c]
        /\ (calls[c].outcome.kind = "none" /\ calls'[c].outcome.kind # "none")
             => calls'[c].pc = "done"
\* C3: every issued call gets exactly one terminal outcome, a result, a
\* remote error or a timeout, and never a second one (a call whose send
\* raises was not issued and ends with the send error); at the step in which it
\* returns the pending table has no entry under its (node, call id), and no
\* entry of the table ever holds the future of a call that has returned.
C3_OneOutcomeAndCleanup == [](C3_NoResidue) /\ [][C3_ReturnStep]_vars
\* C3 witness: one call has timed out, another has returned a result, and
\* the pending table is empty.
C3_Witness ==
    \E c \in Callers : \E d \in Callers :
        /\ calls[c].outcome.kind = "timeout"
        /\ calls[d].outcome.kind = "result"
        /\ pending_responses = EmptyDict

\* C4: the pending record of a call is in the pending table from the moment
\* its request frame is transmitted.
C4_RecordExistsWhenTransmitted ==
    \A c \in Callers :
        Outstanding(c) => Has(NodePending(calls[c].node), calls[c].rpc_id)

\* C5: each caller receives the reply that answers its own request (a reply
\* echoes the params of the request it answers), never the reply to another
\* caller's request.
C5_OwnReply ==
    \A c \in Callers :
        (calls[c].outcome.kind \in {"result", "error"}
         /\ calls[c].outcome.val \in Callers)
        => calls[c].outcome.val = c

\* C6: a call to a node key that is absent from the registry fails at once
\* with "not connected", transmits no frame and leaves the pending table
\* unchanged.
C6_AbsentNodeFailsAtOnce ==
    [][\A c \in Callers : \A n \in NodeKeys :
          (CallNodeRpc(c, n) /\ ~Has(node_websockets, n))
          => /\ calls'[c].pc = "done"
             /\ calls'[c].outcome.kind = "not_connected"
             /\ outbox' = outbox
             /\ pending_responses' = pending_responses]_vars
\* C6 witness: a call to an absent node key has failed with "not connected"
\* and nothing is pending.
C6_Witness ==
    /\ \E c \in Callers : calls[c].outcome.kind = "not_connected"
    /\ pending_responses = EmptyDict
    /\ \A k \in Conns : outbox[k] = {}

Stray(k, f) ==
    \/ sessions[k].node_id = NoNode
    \/ f.idk = "list"
    \/ ~Has(NodePending(sessions[k].node_id), f.id)
    \/ calls[NodePending(sessions[k].node_id)[f.id]].fut # "pending"
\* C7: a response frame that fulfils no pending call of the replying node
\* (unknown, already resolved or foreign id) changes nothing: no error ends
\* the session and every pending record and future is as before.
C7_StrayReplyIsNoOp ==
    [][\A k \in Conns : \A f \in ResponseFrames(k) :
          (RecvResponse(k, f) /\ Stray(k, f)) => UNCHANGED vars]_vars

\* C8: a session leaves its read loop only when the transport has failed;
\* no inbound frame ends it.
C8_OnlyTransportFailureEndsSession ==
    [][\A k \in Conns : Leaves(k) => ~sessions[k].alive]_vars

C9_TimeoutStep ==
    \A c \in Callers :
        /\ (Returns(c) /\ calls[c].fut # "done")
             => calls'[c].outcome.kind = "timeout"
        /\ (Returns(c) /\ calls'[c].outcome.kind = "timeout")
             => calls[c].ttl = 0
\* C9: every call that waits for its reply returns, and then no pending
\* record holds its future; a call whose future was never fulfilled returns
\* a timeout, and only after its deadline has elapsed.
C9_EveryCallTerminates ==
    /\ \A c \in Callers :
          (calls[c].pc = "waiting") ~> (calls[c].pc = "done" /\ ~HasRecord(c))
    /\ [][C9_TimeoutStep]_vars
\* C9 witness: a call has returned a timeout and the pending table is empty.
C9_Witness ==
    \E c \in Callers :
        /\ calls[c].outcome.kind = "timeout"
        /\ pending_responses = EmptyDict

C10_Injective ==
    \A u \in Uuids : \A v \in Uuids :
        (u # v /\ nodes[u] # NoNode) => nodes[u] # nodes[v]
C10_RegisterStep ==
    /\ \A u \in Uuids : nodes[u] # NoNode => nodes'[u] = nodes[u]
    /\ \A k \in Conns : \A f \in RequestFrames :
          (/\ f.method = "backend.register" /\ f.uuid # NoUuid /\ f.dbok
           /\ CanReceive(k) /\ RecvRequest(k, f))
          => /\ nodes'[f.uuid] # NoNode
             /\ sessions'[k].node_id = nodes'[f.uuid]
             /\ Registered(node_websockets', nodes'[f.uuid], k)
\* C10: the node key of a uuid never changes once it is assigned, every
\* successful backend.register binds the session to the key of its uuid, from
\* whichever connection it comes, and distinct uuids never share a node key.
C10_SameUuidSameKey == [](C10_Injective) /\ [][C10_RegisterStep]_vars
\* C10 witness: two connections have registered the same uuid and hold the
\* same node key, while a second uuid has a key of its own.
C10_Witness ==
    /\ \E k \in Conns : \E j \in Conns :
          k # j /\ sessions[k].node_id # NoNode
          /\ sessions[k].node_id = sessions[j].node_id
    /\ \E u \in Uuids : \E v \in Uuids :
          u # v /\ nodes[u] # NoNode /\ nodes[v] # NoNode

RegisterOk(f) == f.method = "backend.register" /\ f.uuid # NoUuid /\ f.dbok
\* C11: a successful backend.register on a connection leaves the registry
\* mapping the returned node key to that connection and the session bound to
\* that key, its reply is a result carrying that key under the request's id,
\* and the key is connected afterwards.
C11_RegisterBinds ==
    /\ [](\A k \in Conns : \A f \in RequestFrames :
            (CanReceive(k) /\ RegisterOk(f))
            => LET r == ReplyTo(f, nodes) IN
               r.kind = "result" /\ r.id = f.id /\ r.val \in NodeKeys)
    /\ [][\A k \in Conns : \A f \in RequestFrames :
            (RegisterOk(f) /\ CanReceive(k) /\ RecvRequest(k, f))
            => LET r == ReplyTo(f, nodes) IN
               /\ r.val = nodes'[f.uuid]
               /\ Registered(node_websockets', r.val, k)
               /\ sessions'[k].node_id = r.val
               /\ sessions'[k].state = "open"
               /\ ~NotConnected(r.val)']_vars
\* C11 witness: an open session is bound to the key of a registered uuid and
\* the registry maps that key to its connection.
C11_Witness ==
    \E k \in Conns : \E u \in Uuids :
        /\ sessions[k].state = "open"
        /\ nodes[u] # NoNode
        /\ sessions[k].node_id = nodes[u]
        /\ Registered(node_websockets, nodes[u], k)

RegistersKey(j, n) ==
    \E f \in RequestFrames :
        RecvRequest(j, f) /\ RegisterOk(f) /\ nodes'[f.uuid] = n
\* C12: the registry holds one connection per node key and the newest
\* registration wins: once a connection holds a key, the registry keeps
\* returning that connection for the key, so that calls and notifications for
\* the key go out on it, for as long as the connection stays open and no other
\* connection registers the key; in particular an older connection that was
\* superseded never takes the entry away.
C12_NewestRegistrationHolds ==
    [][\A k \in Conns : \A n \in NodeKeys :
          (/\ Registered(node_websockets, n, k)
           /\ sessions'[k].state = "open"
           /\ ~\E j \in Conns \ {k} : RegistersKey(j, n))
          => Registered(node_websockets', n, k)]_vars

\* C13: once a session is closed, no registry entry under any node key holds
\* that session's connection, so nothing can be transmitted on it any more.
C13_ClosedConnectionUnregistered ==
    \A k \in Conns :
        sessions[k].state = "closed"
        => \A n \in DOMAIN node_websockets : node_websockets[n] # k

RegisterBad(f) == f.method = "backend.register" /\ (f.uuid = NoUuid \/ ~f.dbok)
\* C14: a backend.register request without a non-empty uuid, or whose
\* database lookup fails, is answered with an error and changes nothing: the
\* registry, the nodes table and the session (its binding, and that it is
\* open) are as before.
C14_FailedRegisterChangesNothing ==
    /\ [](\A k \in Conns : \A f \in RequestFrames :
            (CanReceive(k) /\ RegisterBad(f))
            => ReplyTo(f, nodes).kind = "error" /\ ReplyTo(f, nodes).id = f.id)
    /\ [][\A k \in Conns : \A f \in RequestFrames :
            (RegisterBad(f) /\ CanReceive(k) /\ RecvRequest(k, f))
            => /\ node_websockets' = node_websockets
               /\ nodes' = nodes
               /\ sessions' = sessions]_vars
\* C14 witness: an open session that is not bound to any key, next to a
\* registry that holds another connection: the state in which a failed
\* registration on the unbound session begins and ends.
C14_Witness ==
    \E k \in Conns : \E j \in Conns \ {k} : \E n \in NodeKeys :
        /\ CanReceive(k)
        /\ sessions[k].node_id = NoNode
        /\ Registered(node_websockets, n, j)

\* C15: a request whose method is not backend.register is answered with one
\* error reply, code -32601, under the request's id, and the registry, the
\* pending table and the session's binding are as before.
C15_UnknownMethodNotFound ==
    /\ [](\A k \in Conns : \A f \in RequestFrames :
            (CanReceive(k) /\ f.method # "backend.register")
            => ReplyTo(f, nodes) = [id |-> f.id, kind |-> "error",
                                    val |-> -32601, msg |-> "Method not found"])
    /\ [][\A k \in Conns : \A f \in RequestFrames :
            (f.method # "backend.register" /\ CanReceive(k)
             /\ RecvRequest(k, f))
            => /\ node_websockets' = node_websockets
               /\ pending_responses' = pending_responses
               /\ sessions' = sessions]_vars
\* C15 witness: a bound, open session while a call is pending for its node:
\* the state in which a request with an unknown method on that session begins
\* and ends.
C15_Witness ==
    \E k \in Conns :
        /\ CanReceive(k)
        /\ sessions[k].node_id # NoNode
        /\ Registered(node_websockets, sessions[k].node_id, k)
        /\ Has(pending_responses, sessions[k].node_id)

\* C16: when handling backend.register raises, the reply is an error with
\* code -32603 that carries the message of the exception under the request's
\* id, and the session stays open and able to read its next frame.
C16_InternalErrorKeepsSession ==
    /\ [](\A k \in Conns : \A f \in RequestFrames :
            (CanReceive(k) /\ RegisterBad(f))
            => ReplyTo(f, nodes) =
                   [id |-> f.id, kind |-> "error", val |-> -32603,
                    msg |-> IF f.uuid = NoUuid THEN "Missing uuid parameter"
                            ELSE "sqlite3.Error"])
    /\ [][\A k \in Conns : \A f \in RequestFrames :
            (RegisterBad(f) /\ CanReceive(k) /\ RecvRequest(k, f)) => CanReceive(k)']_vars
\* C16 witness: a session that has registered, and is therefore still
\* open, reads on: the state in which a registration that raises on a bound
\* session begins and ends.
C16_Witness ==
    \E k \in Conns : \E u \in Uuids :
        /\ CanReceive(k)
        /\ nodes[u] # NoNode
        /\ sessions[k].node_id = nodes[u]
        /\ \A v \in Uuids \ {u} : nodes[v] = NoNode

\* C17: a response frame that arrives on a connection with no node key bound
\* is dropped: no future is fulfilled, the pending table is as before, and
\* the session reads on.
C17_ResponseBeforeRegisterDropped ==
    [][\A k \in Conns :
          (sessions[k].node_id = NoNode /\ CanReceive(k))
          => \/ /\ calls' = calls
                /\ pending_responses' = pending_responses
                /\ sessions' = sessions
             \/ ~\E f \in ResponseFrames(k) : RecvResponse(k, f)]_vars
\* C17 witness: a call is waiting on its future, its record in the pending
\* table, while another connection is open and not bound to any key: the
\* state in which a response frame on the unbound connection begins and ends.
C17_Witness ==
    \E k \in Conns : \E c \in Callers :
        /\ CanReceive(k)
        /\ sessions[k].node_id = NoNode
        /\ calls[c].pc = "waiting" /\ calls[c].fut = "pending"
        /\ HasRecord(c)

NotifyEnds == {"notified", "notify_skipped", "notify_swallowed"}
\* C18: a notification never raises to its caller: whether the node key is
\* not in the registry, the send fails on a broken connection (at once or
\* after the task was suspended in it) or the frame goes out, the function
\* returns normally; it leaves the pending table as it was, stores no record
\* and waits for no reply.
C18_NotifyNeverRaises ==
    [][/\ \A c \in Callers : \A n \in NodeKeys : \A m \in NotifyMethods :
          \A st \in StateChecks(m) :
             Notify(c, n, m, st)
             => /\ calls'[c].pc \in {"done", "in_send_text"}
                /\ calls'[c].pc = "done"
                      => calls'[c].outcome.kind \in NotifyEnds
                /\ ~Has(node_websockets, n)
                      => /\ calls'[c].pc = "done"
                         /\ calls'[c].outcome.kind = "notify_skipped"
                /\ (Has(node_websockets, n) /\ ~CanSend(node_websockets[n]))
                      => /\ calls'[c].pc = "done"
                         /\ calls'[c].outcome.kind # "notified"
                /\ calls'[c].fut = "none"
                /\ pending_responses' = pending_responses
                /\ outbox' = outbox
                /\ ~HasRecord(c)'
       /\ \A c \in Callers :
             (calls[c].pc = "in_send_text" /\ calls'[c] # calls[c])
             => /\ calls'[c].pc = "done"
                /\ calls'[c].outcome.kind \in {"notified", "notify_swallowed"}
                /\ calls'[c].fut = "none"
                /\ pending_responses' = pending_responses
                /\ ~HasRecord(c)']_vars
\* C18 witness: one notification was addressed to a node key that is not in
\* the registry, another was sent on a broken connection and its failure was
\* swallowed; both have returned.
C18_Witness ==
    \E c \in Callers : \E d \in Callers :
        /\ calls[c].pc = "done"
        /\ calls[c].outcome = [kind |-> "notify_skipped", val |-> NoConn]
        /\ calls[d].pc = "done"
        /\ calls[d].outcome.kind = "notify_swallowed"

Fulfils(k, f) == CanReceive(k) /\ ~Stray(k, f) /\ RecvResponse(k, f)
\* C19: the outcome of a fulfilled call is that of the reply which fulfilled
\* it: the future holds that reply's envelope, a reply with an error field
\* makes the call fail with that error, and a reply with only a result field
\* makes the call return that result.
C19_OutcomeFollowsReply ==
    [][/\ (\E d \in Callers :
                calls[d].fut = "pending" /\ calls'[d].fut = "done")
             => \A k \in Conns : \A f \in ResponseFrames(k) :
                   Fulfils(k, f)
                   => LET c == NodePending(sessions[k].node_id)[f.id] IN
                      /\ calls'[c].fut = "done"
                      /\ calls'[c].msg = [kind |-> f.kind,
                                          payload |-> f.payload]
       /\ \A c \in Callers :
             (Returns(c) /\ calls[c].fut = "done")
             => calls'[c].outcome =
                  [kind |-> IF calls[c].msg.kind = "result" THEN "result"
                            ELSE "error",
                   val |-> calls[c].msg.payload]]_vars
\* C19 witness: one call has failed with the error of its reply, another has
\* returned the result of its reply.
C19_Witness ==
    \E c \in Callers : \E d \in Callers :
        /\ calls[c].outcome = [kind |-> "error", val |-> c]
        /\ calls[d].outcome = [kind |-> "result", val |-> d]

Answers(k, f, c) ==
    f.idk = "int" /\ f.payload = c
    /\ \E r \in sent : r.params = c /\ r.id = f.id
Late(k, f) ==
    /\ f.idk = "int"
    /\ \/ ~Has(NodePending(sessions[k].node_id), f.id)
       \/ \E c \in Callers :
             /\ Answers(k, f, c)
             /\ \/ calls[c].fut = "cancelled"
                \/ calls[c].outcome.kind = "timeout"
\* C20: the race between the reply and the deadline is safe in both orders.
\* A reply that finds no record under its id, or that answers the request of
\* a call whose future is already cancelled or that has returned its
\* timeout, changes nothing and does not end
\* the session; a future that was fulfilled is never cancelled afterwards,
\* and its call returns the outcome of the reply, never a timeout, even if
\* the deadline has passed by the time the caller runs.
C20_ReplyDeadlineRace ==
    [][/\ \A k \in Conns : \A f \in ResponseFrames(k) :
             (RecvResponse(k, f) /\ Late(k, f)) => UNCHANGED vars
       /\ \A c \in Callers :
             /\ calls[c].fut = "done" => calls'[c].fut # "cancelled"
             /\ calls[c].fut = "cancelled" => calls'[c].fut # "done"
             /\ (Returns(c) /\ calls[c].fut = "done")
                  => calls'[c].outcome.kind \in {"result", "error"}
             /\ (Returns(c) /\ calls[c].fut = "cancelled")
                  => calls'[c].outcome.kind = "timeout"]_vars

\* C21: a future is fulfilled at most once: the first reply that is
\* processed under the id of a pending call sets the envelope the call will
\* return, and every later reply under that id is dropped: the envelope of a
\* fulfilled future never changes, and the reply changes nothing else.
C21_FulfilledAtMostOnce ==
    /\ [][\A c \in Callers :
             calls[c].fut = "done"
             => (calls'[c].fut = "done" => calls'[c].msg = calls[c].msg)]_vars
    /\ []((\E d \in Callers : calls[d].fut = "done")
             => \A k \in Conns : \A f \in ResponseFrames(k) :
                   (/\ f.idk = "int" /\ CanReceive(k)
                    /\ Has(NodePending(sessions[k].node_id), f.id)
                    /\ calls[NodePending(sessions[k].node_id)[f.id]].fut
                          = "done")
                   => ~ENABLED (RecvResponse(k, f) /\ vars' # vars))
\* C21 witness: the future of a waiting call is fulfilled, its record is
\* still in the pending table, and the connection can deliver another reply
\* to the same request.
C21_Witness ==
    \E c \in Callers : \E k \in Conns :
        /\ calls[c].pc = "waiting" /\ calls[c].fut = "done"
        /\ CanReceive(k) /\ sessions[k].node_id = calls[c].node
        /\ Has(NodePending(calls[c].node), calls[c].rpc_id)
        /\ NodePending(calls[c].node)[calls[c].rpc_id] = c
        /\ \E r \in outbox[k] : r.params = c /\ r.id = calls[c].rpc_id

\* C22: call ids that collide across nodes are harmless: a reply received
\* on a session bound to one node key changes no call that is pending for
\* another node key and removes no record, even when that other node has a
\* pending call under the same id; and a returning call removes only the
\* record of its own node key.
C22_CrossNodeIdsHarmless ==
    [][/\ \A k \in Conns :
             \/ /\ \A c \in Callers :
                      (calls[c].pc = "waiting"
                       /\ calls[c].node # sessions[k].node_id)
                      => calls'[c] = calls[c]
                /\ pending_responses' = pending_responses
             \/ ~CanReceive(k)
             \/ ~\E f \in ResponseFrames(k) : RecvResponse(k, f)
       /\ \A c \in Callers : \A n \in NodeKeys :
             (Returns(c) /\ n # calls[c].node)
             => NodePendingOf(pending_responses', n) = NodePending(n)]_vars
\* C22 witness: two calls are waiting under the same id for two different
\* node keys; a reply under that id has fulfilled the one for the node key
\* of the session that received it, and the other is still pending with its
\* record in place.
C22_Witness ==
    \E c \in Callers : \E d \in Callers :
        /\ calls[c].pc = "waiting" /\ calls[d].pc = "waiting"
        /\ calls[c].node # calls[d].node
        /\ calls[c].rpc_id = calls[d].rpc_id
        /\ calls[c].fut = "done" /\ calls[d].fut = "pending"
        /\ Has(NodePending(calls[d].node), calls[d].rpc_id)

Suspended(c) == calls[c].pc = "waiting" /\ calls[c].fut = "pending"
\* C23: a suspended call blocks nothing else.  While a call awaits its reply,
\* the reader of every open connection can take its next frame, whatever it
\* is; every other caller can issue a call to any node key, store its record,
\* be fulfilled and return: no step of a call waits for another pending call.
C23_SuspendedCallBlocksNothing ==
    \A c \in Callers :
        Suspended(c) =>
          /\ \A k \in Conns :
                (sessions[k].state = "open" /\ sessions[k].alive)
                => /\ ENABLED RecvOther(k)
                   /\ ENABLED RecvUnparseable(k)
                   /\ \A f \in RequestFrames : ENABLED RecvRequest(k, f)
                   /\ \A f \in HybridFrames(k) : ENABLED RecvHybrid(k, f)
                   /\ \A f \in ResponseFrames(k) : ENABLED RecvResponse(k, f)
          /\ \A d \in Callers \ {c} :
                /\ (calls[d].pc = "idle" /\ now < MaxClock)
                     => \A n \in NodeKeys : ENABLED CallNodeRpc(d, n)
                /\ calls[d].pc = "sending" => ENABLED BeginWait(d)
                /\ (calls[d].pc = "waiting" /\ calls[d].fut # "pending")
                     => ENABLED CallReturn(d)
\* C23 witness: one call is still suspended, its record in the pending
\* table, while another caller's call has been fulfilled and has returned
\* its result.
C23_Witness ==
    \E c \in Callers : \E d \in Callers \ {c} :
        /\ Suspended(c) /\ HasRecord(c)
        /\ calls[d].pc = "done"
        /\ calls[d].outcome = [kind |-> "result", val |-> d]

\* C24: session teardown does not touch the pending table.  The step in
\* which a session leaves its read loop changes no pending record and no
\* call; a call that is pending stops being pending only because its own
\* deadline has elapsed or because a reply received on a session bound to its
\* node key fulfilled it.
C24_TeardownKeepsPendingCalls ==
    [][/\ \A k \in Conns :
             Leaves(k) => (pending_responses' = pending_responses
                           /\ calls' = calls)
       /\ \A c \in Callers :
             (Suspended(c) /\ ~Suspended(c)')
             => /\ calls'[c].pc = "waiting"
                /\ \/ calls'[c].fut = "cancelled" /\ calls[c].ttl = 0
                   \/ /\ calls'[c].fut = "done"
                      /\ \E k \in Conns :
                            /\ sessions[k].node_id = calls[c].node
                            /\ \E f \in ResponseFrames(k) : RecvResponse(k, f)]_vars
\* C24 witness: every connection that was accepted is closed and a call
\* transmitted on one of them is still pending, its record in the table.
C24_Witness ==
    /\ \E k \in Conns : sessions[k].state = "closed"
    /\ \A k \in Conns : sessions[k].state # "open"
    /\ \E c \in Callers : Suspended(c) /\ HasRecord(c)

\* C25: frames are classified by shape and the method field comes first.  A
\* frame with a method is handled as a request and answered under its id,
\* and never fulfils a pending call, even when it carries the id of a pending
\* call with a result or an error; a future is fulfilled only by a frame
\* without method that has an id with a result or an error.
C25_MethodTakesPrecedence ==
    /\ [](\A k \in Conns : \A f \in HybridFrames(k) :
            CanReceive(k) => ReplyTo(f, nodes).id = f.id)
    /\ [][/\ (calls' # calls \/ pending_responses' # pending_responses)
               => ~\E k \in Conns : \E f \in HybridFrames(k) : RecvHybrid(k, f)
          /\ \A c \in Callers :
               (calls[c].fut = "pending" /\ calls'[c].fut = "done")
               => \E k \in Conns : \E f \in ResponseFrames(k) :
                     RecvResponse(k, f)]_vars
\* C25 witness: a call is pending for the node key of an open session, and a
\* frame with a method that carries the id of that call and the answer to its
\* request is among the frames the session takes: the state in which
\* handling such a frame begins and, when it registers nothing new, ends.
C25_Witness ==
    \E k \in Conns : \E c \in Callers : \E f \in HybridFrames(k) :
        /\ CanReceive(k) /\ sessions[k].node_id = calls[c].node
        /\ Registered(node_websockets, calls[c].node, k)
        /\ Suspended(c) /\ HasRecord(c)
        /\ f.id = calls[c].rpc_id /\ f.payload = c

TakesFrame(k) ==
    \/ ENABLED RecvOther(k)
    \/ ENABLED RecvUnparseable(k)
    \/ ENABLED SessionExit(k)
    \/ \E f \in RequestFrames : ENABLED RecvRequest(k, f)
    \/ \E f \in HybridFrames(k) : ENABLED RecvHybrid(k, f)
    \/ ENABLED RecvAnyResponse(k)
C26_SessionStep ==
    \A k \in Conns :
        /\ sessions'[k].state # sessions[k].state
             => \/ sessions[k].state = "none" /\ sessions'[k].state = "open"
                \/ sessions[k].state = "open" /\ sessions'[k].state = "closed"
        /\ sessions[k].state = "none" => sessions'[k].node_id = NoNode
        /\ (sessions'[k].node_id # NoNode
            /\ sessions'[k].node_id # sessions[k].node_id)
             => /\ sessions[k].state = "open" /\ sessions'[k].state = "open"
                /\ \E f \in RequestFrames \cup HybridFrames(k) :
                      /\ RecvRequest(k, f) /\ RegisterOk(f)
                      /\ sessions'[k].node_id = nodes'[f.uuid]
        /\ (sessions[k].node_id # NoNode /\ sessions'[k].state = "open")
             => sessions'[k].node_id # NoNode
        /\ sessions[k].state = "closed"
             => /\ sessions'[k] = sessions[k]
                /\ \A n \in NodeKeys :
                      (Registered(node_websockets, n, k)
                       /\ ~Registered(node_websockets', n, k))
                      => \E j \in Conns \ {k} : sessions[j].state = "open"
\* C26: a session goes from accepted to active to closed.  It becomes bound
\* to a node key only through a successful backend.register received on its
\* own connection and stays bound while it is open; closed is terminal: a
\* closed session takes no further frame, has no second teardown, never
\* changes again, and whatever changes in the registry afterwards is the step
\* of another session.
C26_SessionLifecycle ==
    /\ [](\A k \in Conns : sessions[k].state # "open" => ~TakesFrame(k))
    /\ [][C26_SessionStep]_vars
\* C26 witness: one session has gone through all three states and is closed
\* after having been bound (its teardown removed its key), while another is
\* bound and open.
C26_Witness ==
    \E k \in Conns : \E j \in Conns \ {k} :
        /\ sessions[k].state = "closed"
        /\ sessions[j].state = "open" /\ sessions[j].node_id # NoNode
        /\ \E u \in Uuids : nodes[u] # NoNode /\ nodes[u] # sessions[j].node_id
                              /\ ~Has(node_websockets, nodes[u])

KeysOf(k) == {n \in DOMAIN node_websockets : node_websockets[n] = k}
\* C27: at every instant a connection is stored in the registry under at
\* most one node key, also after it has registered a second uuid.
C27_OneKeyPerConnection ==
    \A k \in Conns : Cardinality(KeysOf(k)) <= 1

TransmittedOn(c, k) ==
    \E r \in outbox[k] : r.params = c /\ r.id = calls[c].rpc_id
\* C28: a call is fulfilled only by a reply received on the connection its
\* request was transmitted on, the registry's connection for the node key at
\* that time; a reply on an older connection that was superseded under the
\* key does not fulfil it.
C28_FulfilledOnOwnConnection ==
    [][\A c \in Callers :
          (calls[c].fut = "pending" /\ calls'[c].fut = "done")
          => \E k \in Conns :
                /\ TransmittedOn(c, k)
                /\ \E f \in ResponseFrames(k) : RecvResponse(k, f)]_vars

\* C29: when the request frame cannot be transmitted because the registered
\* connection is broken, the call fails at once with the send error, and no
\* pending record is created for it or left in the table; the same holds
\* when the send raises after the task was suspended in it.
C29_SendFailureLeavesNoRecord ==
    [][/\ \A c \in Callers : \A n \in NodeKeys :
          (/\ CallNodeRpc(c, n)
           /\ Has(node_websockets, n)
           /\ ~(sessions[node_websockets[n]].state = "open"
                /\ sessions[node_websockets[n]].alive))
          => /\ calls'[c].pc = "done"
             /\ calls'[c].outcome.kind = "send_failed"
             /\ calls'[c].fut = "none"
             /\ pending_responses' = pending_responses
             /\ outbox' = outbox
             /\ ~HasRecord(c)'
       /\ \A c \in Callers :
             (calls[c].pc = "sending" /\ calls'[c].pc = "done")
             => /\ calls'[c].outcome.kind = "send_failed"
                /\ calls'[c].fut = "none"
                /\ pending_responses' = pending_responses
                /\ ~HasRecord(c)']_vars
\* C29 witness: a call has failed with the send error while the node key is
\* still in the registry, and the pending table is empty.
C29_Witness ==
    \E c \in Callers : \E n \in NodeKeys :
        /\ calls[c].pc = "done"
        /\ calls[c].outcome.kind = "send_failed"
        /\ Has(node_websockets, n) /\ ~CanSend(node_websockets[n])
        /\ pending_responses = EmptyDict

StatusOf(op) == IF op = "start" THEN 1 ELSE 0
OwnSuccess(c) ==
    /\ calls[c].fut = "done"
    /\ calls[c].msg = [kind |-> "result", payload |-> c]
EndsWithout(c) ==
    /\ \/ calls[c].op \in TeleopOps
       \/ \E op \in TeleopOps : TeleopCall(c, op)
    /\ calls[c].pc # "done" /\ calls'[c].pc = "done"
    /\ ~OwnSuccess(c)
\* C30: the persisted status of an existing teleop group changes to 1 or 0
\* only in the step in which a start or stop handler returns from its wait
\* with the node's reply to its own request, a result that reports success,
\* and then to 1 (start) or 0 (stop); a handler that ends in any other way
\* (no row, node not connected, send failure, timeout, error reply, result
\* without success) leaves the status as it was.  The row itself appears only
\* through create_teleop_group, with status 0.
C30_StatusFollowsOwnReply ==
    [][/\ (group_status # NoRow /\ group_status' # group_status
                                /\ group_status' # NoRow)
          => \E c \in Callers :
                /\ Returns(c) /\ calls[c].op \in TeleopOps /\ OwnSuccess(c)
                /\ group_status' = StatusOf(calls[c].op)
       /\ (group_status = NoRow /\ group_status' # NoRow)
          => /\ group_status' = 0
             /\ \E c \in Callers : \E n \in NodeKeys : create_teleop_group(c, n)
       /\ \A c \in Callers : EndsWithout(c) => group_status' = group_status]_vars

InnerCreated(n) == ~Has(pending_responses, n) /\ Has(pending_responses', n)
InnerRemoved(n) == Has(pending_responses, n) /\ ~Has(pending_responses', n)
C31_TableStep ==
    /\ \A n \in NodeKeys :
          /\ InnerCreated(n)
               => \E c \in Callers :
                     /\ BeginWait(c) /\ calls[c].node = n
                     /\ DOMAIN pending_responses'[n] = {calls[c].rpc_id}
          /\ InnerRemoved(n)
               => \E c \in Callers :
                     /\ Returns(c) /\ calls[c].node = n
                     /\ DOMAIN pending_responses[n] = {calls[c].rpc_id}
    /\ pending_responses' # pending_responses
          => /\ \E c \in Callers : BeginWait(c) \/ Returns(c)
             /\ ~\E k \in Conns : \E f \in ResponseFrames(k) : RecvResponse(k, f)
\* C31: the pending table never maps a node key to an empty inner table; an
\* inner table appears only in the step that stores its first record and
\* holds just that record, it disappears only in the step of the call that
\* removes its last record, and a step that processes a reply leaves the
\* pending table as it is.
C31_NoEmptyInnerTable ==
    /\ [](\A n \in DOMAIN pending_responses :
             DOMAIN pending_responses[n] # {})
    /\ [][C31_TableStep]_vars
\* C31 witness: a call has returned and the removal of its record has emptied
\* the pending table, while an open session bound to a node key goes on
\* processing that node's replies.
C31_Witness ==
    /\ pending_responses = EmptyDict
    /\ \E c \in Callers : calls[c].outcome.kind \in {"result", "error", "timeout"}
    /\ \E k \in Conns : CanReceive(k) /\ sessions[k].node_id \in NodeKeys
====
